---- MODULE Spec2Model ----
(***************************************************************************)
(* A verification model of four estimators of the library:                 *)
(*   - sklearn/cluster/_hdbscan/hdbscan.py      (HDBSCAN.fit)               *)
(*   - sklearn/preprocessing/_encoders.py       (OneHotEncoder)             *)
(*   - sklearn/mimic_calibration.py             (_MimicCalibration)         *)
(*   - sklearn/model_selection/_subselect.py    (ScoreCutModelSelector)     *)
(* Each estimator has its own specification (SpecHDBSCAN, SpecOHE,          *)
(* SpecMimic, SpecSelect) over its own variables.                           *)
(***************************************************************************)
EXTENDS Integers, Sequences, FiniteSets, TLC

VARIABLES
    hX,        \* HDBSCAN: the feature array passed to fit
    hMcs,      \* HDBSCAN: the min_cluster_size parameter
    hModel,    \* HDBSCAN: HDBSCAN().fit(hX)
    hClean,    \* HDBSCAN: an identically configured HDBSCAN fitted on the purely finite rows of hX
    eX,        \* OneHotEncoder: the training data passed to fit
    eParams,   \* OneHotEncoder: the constructor parameters (drop, handle_unknown)
    eEnc,      \* OneHotEncoder: the fitted attributes
    eXq,       \* OneHotEncoder: the array passed to transform
    eOut,      \* OneHotEncoder: the result of transform(eXq)
    eInv,      \* OneHotEncoder: the result of inverse_transform(eOut)
    eNames,    \* OneHotEncoder: the result of get_feature_names()
    mScore,    \* _MimicCalibration: the scores X passed to fit
    mTarget,   \* _MimicCalibration: the targets y passed to fit
    mThresh,   \* _MimicCalibration: the threshold_pos parameter
    mFit,      \* _MimicCalibration: outcome of fit (boundary_table, calibrated_model)
    mBins,     \* _MimicCalibration: outcome of construct_initial_bin on the sorted data
    mMerged,   \* _MimicCalibration: outcome of run_merge_function on those bins
    sGrid,     \* ScoreCutModelSelector: _score_grid, one row of fold scores per model
    sSel,      \* ScoreCutModelSelector: the selector passed to fit_transform
    sWindow,   \* ScoreCutModelSelector: the (min_cut, max_cut) the selector returned
    sOut,      \* ScoreCutModelSelector: outcome of fit_transform (index, mask)
    gSolver,   \* _GeneralizedLinearRegressor: the solver parameter
    gMaxIter,  \* _GeneralizedLinearRegressor: the max_iter parameter
    gNIter,    \* _GeneralizedLinearRegressor: the n_iter_ attribute
    gLast,     \* _GeneralizedLinearRegressor: what the latest fit did
    gFits,     \* _GeneralizedLinearRegressor: number of fit calls so far
    cBackend,  \* SelectFromModelCV: the joblib backend in effect
    cNJobs,    \* SelectFromModelCV: effective_n_jobs(self.n_jobs)
    cPc,       \* SelectFromModelCV: position of each fold task in _sfm_single_fit
    cEst,      \* SelectFromModelCV: sfm.estimator_ in each copy of sfm
    cFittedOn,  \* SelectFromModelCV: the fold each clone was last fitted on
    cImportances, \* SelectFromModelCV: feature_importances_cv
    fHeap,     \* FactorAnalysis: the arrays in memory (the caller's X, the copy)
    fX0,       \* FactorAnalysis: the content of the caller's X before fit
    fCopy,     \* FactorAnalysis: the copy parameter
    fNComp,    \* FactorAnalysis: the n_components parameter
    fOut,      \* FactorAnalysis: outcome of fit
    dHeap,     \* HDBSCAN (precomputed): the arrays in memory
    dD0,       \* HDBSCAN (precomputed): the content of the caller's matrix before fit
    dParams,   \* HDBSCAN (precomputed): algorithm, min_samples, alpha, copy
    dOut,      \* HDBSCAN (precomputed): outcome of fit
    nModel,    \* ColumnwiseNB: classes_, class_count_, estimators_
    nSeen,     \* ColumnwiseNB: per class, the weighted samples of the successful calls since the last fit
    nLog,      \* ColumnwiseNB: calls made, successful calls since the last fit, failures, samples the last fit discarded
    nOn,       \* ColumnwiseNB: whether the estimator has been constructed
    iParams,   \* OneHotEncoder constructor arguments (infrequent categories)
    iX,        \* the data handed to fit: n_samples and per-column category counts
    iFit,      \* outcome of the last OneHotEncoder.fit on category counts
    oArgs,     \* arguments of fetch_openml
    oFs,       \* directories that exist
    oFs0,      \* directories that existed when the last call began
    oHttp,     \* HTTP requests issued by the last call
    oOut       \* outcome of the last call

hvars == <<hX, hMcs, hModel, hClean>>
evars == <<eX, eParams, eEnc, eXq, eOut, eInv, eNames>>

mvars == <<mScore, mTarget, mThresh, mFit, mBins, mMerged>>

svars == <<sGrid, sSel, sWindow, sOut>>

gvars == <<gSolver, gMaxIter, gNIter, gLast, gFits>>

cvars == <<cBackend, cNJobs, cPc, cEst, cFittedOn, cImportances>>

fvars == <<fHeap, fX0, fCopy, fNComp, fOut>>

dvars == <<dHeap, dD0, dParams, dOut>>

nvars == <<nModel, nSeen, nLog, nOn>>

ivars == <<iParams, iX, iFit>>

ovars == <<oArgs, oFs, oFs0, oHttp, oOut>>

vars == <<hvars, evars, mvars, svars, gvars, cvars, fvars, dvars, nvars, ivars, ovars>>

(***************************************************************************)
(* Generic helpers                                                         *)
(***************************************************************************)
Range(s) == {s[i] : i \in DOMAIN s}

\* The increasing sequence of the elements of a finite set of integers.
RECURSIVE SortedSeq(_)
SortedSeq(S) ==
    IF S = {} THEN <<>>
    ELSE LET m == CHOOSE x \in S : \A y \in S : x <= y
         IN <<m>> \o SortedSeq(S \ {m})

\* numpy fancy indexing s[idx] with idx a sequence of (1-based) positions.
Take(s, idx) == [k \in 1..Len(idx) |-> s[idx[k]]]

(***************************************************************************)
(* float64 values.  Finite values are the integers -FltMax..FltMax; the     *)
(* three non-finite values are encoded next to them.  Addition follows      *)
(* IEEE-754: NaN is absorbing, inf + -inf is NaN and a finite sum beyond    *)
(* the largest finite value overflows to an infinity.                       *)
(***************************************************************************)
FltMax == 1
PosInf == FltMax + 1
NegInf == -(FltMax + 1)
NaN    == FltMax + 2

IsNaN(x)    == x = NaN
IsInf(x)    == x = PosInf \/ x = NegInf
IsFinite(x) == ~IsNaN(x) /\ ~IsInf(x)

FAdd(a, b) ==
    IF IsNaN(a) \/ IsNaN(b) THEN NaN
    ELSE IF IsInf(a) /\ IsInf(b) THEN (IF a = b THEN a ELSE NaN)
    ELSE IF IsInf(a) THEN a
    ELSE IF IsInf(b) THEN b
    ELSE IF a + b > FltMax THEN PosInf
    ELSE IF a + b < -FltMax THEN NegInf
    ELSE a + b

\* ndarray.sum over one row (left to right).
RECURSIVE FSum(_)
FSum(row) ==
    IF Len(row) = 0 THEN 0
    ELSE FAdd(FSum(SubSeq(row, 1, Len(row) - 1)), row[Len(row)])

(***************************************************************************)
(* HDBSCAN (sklearn/cluster/_hdbscan/hdbscan.py)                           *)
(* Sample and label positions are 1-based here, 0-based in the source.     *)
(***************************************************************************)
NSamples == 5

\* The rows a feature array is built from: finite rows, a finite row whose
\* sum leaves the float64 range, rows holding inf, -inf and NaN.
Rows ==
    { <<0, 0>>, <<0, FltMax>>, <<FltMax, FltMax>>,
      <<PosInf, 0>>, <<PosInf, NegInf>>, <<NaN, 0>>, <<NaN, PosInf>> }

MinClusterSizes == {2, 3}

Unfitted == [status |-> "unfitted", labels_ |-> <<>>, probabilities_ |-> <<>>]
Raised   == [status |-> "error", labels_ |-> <<>>, probabilities_ |-> <<>>]

\* mst_func followed by _tree_to_labels.  The Cython routines behind them
\* (_linkage, _reachability, _tree) are not part of the sources at hand; they
\* are a deterministic function of the array they are given.  Here: rows that
\* occur at least min_cluster_size times form a cluster, clusters are numbered
\* from 0 in order of first occurrence, every other row is noise.
FirstIdx(X, i) ==
    CHOOSE j \in DOMAIN X : X[j] = X[i] /\ \A k \in DOMAIN X : X[k] = X[i] => j <= k

InCluster(X, min_cluster_size, i) ==
    Cardinality({j \in DOMAIN X : X[j] = X[i]}) >= min_cluster_size

_tree_to_labels(X, min_cluster_size) ==
    LET cid(i) == Cardinality({j \in DOMAIN X :
                      /\ InCluster(X, min_cluster_size, j)
                      /\ FirstIdx(X, j) = j
                      /\ j < FirstIdx(X, i)})
    IN [labels |-> [i \in DOMAIN X |->
                      IF InCluster(X, min_cluster_size, i) THEN cid(i) ELSE -1],
        probabilities |-> [i \in DOMAIN X |->
                      IF InCluster(X, min_cluster_size, i) THEN 1 ELSE 0]]

\* _assert_all_finite(X) raises iff some element of X is inf or NaN.
AllFinite(X) == \A i \in DOMAIN X : \A j \in DOMAIN X[i] : IsFinite(X[i][j])

\* (row_indices,) = np.isfinite(matrix.sum(axis=1)).nonzero()
_get_finite_row_indices(matrix) ==
    SortedSeq({i \in DOMAIN matrix : IsFinite(FSum(matrix[i]))})

\* HDBSCAN.fit for metric != "precomputed", min_samples=None, store_centers=None.
HDBSCAN_fit(X, min_cluster_size) ==
    LET all_finite   == AllFinite(X)
        reduced_X    == [i \in DOMAIN X |-> FSum(X[i])]
        missing      == {i \in DOMAIN X : IsNaN(reduced_X[i])}
        outliers     == {i \in DOMAIN X : IsInf(reduced_X[i])}
        finite_index == _get_finite_row_indices(X)
        Xr           == IF all_finite THEN X ELSE Take(X, finite_index)
        _min_samples == min_cluster_size
    IN  IF Len(Xr) = 1 THEN Raised
        ELSE IF _min_samples > Len(Xr) THEN Raised
        ELSE
          LET c == _tree_to_labels(Xr, min_cluster_size)
              new_labels == [i \in DOMAIN X |->
                  IF i \in missing THEN -2
                  ELSE IF \E k \in DOMAIN finite_index : finite_index[k] = i
                       THEN c.labels[CHOOSE k \in DOMAIN finite_index : finite_index[k] = i]
                       ELSE -1]
              new_probabilities == [i \in DOMAIN X |->
                  IF i \in missing THEN NaN
                  ELSE IF \E k \in DOMAIN finite_index : finite_index[k] = i
                       THEN c.probabilities[CHOOSE k \in DOMAIN finite_index : finite_index[k] = i]
                       ELSE 0]
          IN IF all_finite
             THEN [status |-> "fitted", labels_ |-> c.labels,
                   probabilities_ |-> c.probabilities]
             ELSE [status |-> "fitted", labels_ |-> new_labels,
                   probabilities_ |-> new_probabilities]

\* test_outlier_data: the positions of the samples without inf or NaN.
clean_indices(X) ==
    SortedSeq({i \in DOMAIN X : \A j \in DOMAIN X[i] : IsFinite(X[i][j])})

HIdle ==
    /\ hX = <<>>
    /\ hMcs = 0
    /\ hModel = Unfitted
    /\ hClean = Unfitted

HInit ==
    /\ hX \in [1..NSamples -> Rows]
    /\ hMcs \in MinClusterSizes
    /\ hModel = Unfitted
    /\ hClean = Unfitted

\* model = HDBSCAN(min_cluster_size=hMcs).fit(X_outlier)
HFit ==
    /\ hModel.status = "unfitted"
    /\ hModel' = HDBSCAN_fit(hX, hMcs)
    /\ UNCHANGED <<hX, hMcs, hClean>>
    /\ UNCHANGED <<evars, mvars, svars, gvars, cvars, fvars, dvars, nvars, ivars, ovars>>

\* clean_model = HDBSCAN(min_cluster_size=hMcs).fit(X_outlier[clean_indices])
HFitClean ==
    /\ hClean.status = "unfitted"
    /\ hClean' = HDBSCAN_fit(Take(hX, clean_indices(hX)), hMcs)
    /\ UNCHANGED <<hX, hMcs, hModel>>
    /\ UNCHANGED <<evars, mvars, svars, gvars, cvars, fvars, dvars, nvars, ivars, ovars>>

HNext == HFit \/ HFitClean

HasNaN(row) == \E j \in DOMAIN row : IsNaN(row[j])
HasInf(row) == \E j \in DOMAIN row : IsInf(row[j])

\* C1: after fit on feature data a sample has label -2 and probability NaN
\* exactly when it holds a NaN, and a sample holding an infinite value but no
\* NaN has label -1 and probability 0.
C1_MissingAndOutlierLabels ==
    hModel.status = "fitted" =>
        \A i \in DOMAIN hX :
            /\ (hModel.labels_[i] = -2) <=> HasNaN(hX[i])
            /\ HasNaN(hX[i]) => IsNaN(hModel.probabilities_[i])
            /\ (HasInf(hX[i]) /\ ~HasNaN(hX[i])) =>
                   (hModel.labels_[i] = -1 /\ hModel.probabilities_[i] = 0)

\* C2: for data with non-finite samples, the labels fit gives to the purely
\* finite samples equal the labels of an identically configured estimator
\* fitted on those samples alone.
C2_FiniteLabelsAgree ==
    (/\ ~AllFinite(hX)
     /\ hModel.status = "fitted"
     /\ hClean.status = "fitted") =>
        Take(hModel.labels_, clean_indices(hX)) = hClean.labels_

(***************************************************************************)
(* OneHotEncoder (sklearn/preprocessing/_encoders.py)                      *)
(* categories='auto', min_frequency=1, max_levels=None, sparse=False.      *)
(* Category codes (X_int, drop_idx_, labels) are 0-based as in the source; *)
(* TLA+ sequences are 1-based, so category code c of feature i is          *)
(* categories_[i][c + 1].                                                  *)
(***************************************************************************)
ENSamples == 3

\* The values a feature takes.
ECats == 1..3

\* The value standing for Python's None in an inverse-transformed array.
PyNone == 0

\* The outcome of a call: a returned value, a raised exception, or not called yet.
Ok(v)   == [st |-> "ok", v |-> v]
Err     == [st |-> "error", v |-> <<>>]
Pending == [st |-> "pending", v |-> <<>>]
IsOk(r) == r.st = "ok"

Matrices(nrows, nfeat) == [1..nrows -> [1..nfeat -> ECats]]

DropParams ==
    { [kind |-> k, arr |-> <<>>] : k \in {"None", "first", "if_binary"} }
    \cup { [kind |-> "array", arr |-> a] : a \in [1..1 -> ECats] \cup [1..2 -> ECats] }

Column(X, i) == [r \in DOMAIN X |-> X[r][i]]

\* The code of value v in cats (np.where(cat_list == val)[0][0], _encode).
IndexOf(cats, v) == (CHOOSE k \in DOMAIN cats : cats[k] = v) - 1

\* Python indexing cats[idx] with a negative idx counting from the end.
PyIndex(cats, idx) == IF idx < 0 THEN cats[Len(cats) + idx + 1] ELSE cats[idx + 1]

\* np.delete(cats, idx): idx may be negative; out of bounds raises.
NpDelete(cats, idx) ==
    LET k == IF idx < 0 THEN Len(cats) + idx + 1 ELSE idx + 1
    IN [j \in 1..(Len(cats) - 1) |-> IF j < k THEN cats[j] ELSE cats[j + 1]]

RECURSIVE SeqSum(_)
SeqSum(s) == IF Len(s) = 0 THEN 0 ELSE s[Len(s)] + SeqSum(SubSeq(s, 1, Len(s) - 1))

_infrequent_enabled == FALSE

_validate_keywords(params) ==
    ~(params.drop.kind # "None" /\ params.handle_unknown # "error")

\* _BaseEncoder._fit with categories='auto': the sorted unique values per feature.
_fit(X) == [i \in DOMAIN X[1] |-> SortedSeq(Range(Column(X, i)))]

_compute_drop_idx(drop, categories_) ==
    IF drop.kind = "None" THEN Ok(<<>>)
    ELSE IF drop.kind = "first" THEN Ok([i \in DOMAIN categories_ |-> 0])
    ELSE IF drop.kind = "if_binary"
         THEN Ok([i \in DOMAIN categories_ |->
                     IF Len(categories_[i]) = 2 THEN 0 ELSE -1])
    ELSE IF Len(drop.arr) # Len(categories_) THEN Err
    ELSE IF \E i \in DOMAIN drop.arr : drop.arr[i] \notin Range(categories_[i]) THEN Err
    ELSE Ok([i \in DOMAIN categories_ |-> IndexOf(categories_[i], drop.arr[i])])

ENotFitted ==
    [status |-> "unfitted", categories_ |-> <<>>, drop_idx_ |-> <<>>,
     drop |-> [kind |-> "None", arr |-> <<>>], handle_unknown |-> "error"]

OneHotEncoder_fit(X, params) ==
    LET categories_ == _fit(X)
        d == _compute_drop_idx(params.drop, categories_)
    IN IF ~_validate_keywords(params) \/ ~IsOk(d)
       THEN [ENotFitted EXCEPT !.status = "error"]
       ELSE [status |-> "fitted", categories_ |-> categories_, drop_idx_ |-> d.v,
             drop |-> params.drop, handle_unknown |-> params.handle_unknown]

\* `self.drop == 'first'` used as a condition.  After fit an array-like drop
\* is an object ndarray, the comparison is elementwise, and the truth value
\* of its result is that of its only element when it has one and raises
\* ValueError when it has more.
DropEqFirst(drop) ==
    IF drop.kind = "array"
    THEN (IF Len(drop.arr) = 1 THEN Ok(FALSE) ELSE Err)
    ELSE Ok(drop.kind = "first")

_n_transformed_features(enc) ==
    IF enc.drop.kind # "None"
    THEN LET c == DropEqFirst(enc.drop)
         IN IF ~IsOk(c) THEN Err
            ELSE IF c.v
            THEN Ok([i \in DOMAIN enc.categories_ |-> Len(enc.categories_[i]) - 1])
            ELSE Ok([i \in DOMAIN enc.categories_ |->
                        IF Len(enc.categories_[i]) = 2 THEN 1
                        ELSE Len(enc.categories_[i])])
    ELSE Ok([i \in DOMAIN enc.categories_ |-> Len(enc.categories_[i])])

\* Mutant: the last category is deleted instead of the dropped one.
Mut_compute_transformed_categories(enc, i) ==
    IF enc.drop.kind # "None"
    THEN NpDelete(enc.categories_[i], -1)
    ELSE enc.categories_[i]

_compute_transformed_categories(enc, i) ==
    IF enc.drop.kind # "None"
    THEN NpDelete(enc.categories_[i], enc.drop_idx_[i])
    ELSE enc.categories_[i]

\* np.cumsum([0] + n_values)[:-1]
FeatureOffset(n_values, i) == SeqSum(SubSeq(n_values, 1, i - 1))

\* OneHotEncoder.transform on X whose values all belong to categories_.
\* The result is the dense array: entry [r][c] counts the stored elements of
\* the CSR matrix at row r, column c (0-based column c is position c + 1).
OneHotEncoder_transform(enc, X) ==
    LET nf == Len(enc.categories_)
        X_int0 == [r \in DOMAIN X |-> [i \in 1..nf |-> IndexOf(enc.categories_[i], X[r][i])]]
        dropping == enc.drop.kind # "None"
        keep_cells == [r \in DOMAIN X |-> [i \in 1..nf |->
                          IF dropping THEN X_int0[r][i] # enc.drop_idx_[i] ELSE TRUE]]
        to_drop == [i \in 1..nf |->
                       IF ~dropping THEN 0
                       ELSE IF enc.drop_idx_[i] = -1 THEN Len(enc.categories_[i])
                       ELSE enc.drop_idx_[i]]
        X_int == [r \in DOMAIN X |-> [i \in 1..nf |->
                     IF dropping /\ X_int0[r][i] > to_drop[i]
                     THEN X_int0[r][i] - 1 ELSE X_int0[r][i]]]
        nv == _n_transformed_features(enc)
    IN IF Len(X[1]) # nf THEN Err
       ELSE IF ~IsOk(nv) THEN Err
       ELSE
         LET n_values == nv.v
             ncols    == SeqSum(n_values)
             idx(r, i) == X_int[r][i] + FeatureOffset(n_values, i)
         IN IF \E r \in DOMAIN X : \E i \in 1..nf :
                  keep_cells[r][i] /\ idx(r, i) >= ncols
            THEN Err
            ELSE Ok([r \in DOMAIN X |-> [c \in 1..ncols |->
                       Cardinality({i \in 1..nf :
                           keep_cells[r][i] /\ idx(r, i) = c - 1})]])

\* _argmax(sub, axis=1) of one row: the first position of the maximum (0-based).
_argmax(row) ==
    (CHOOSE k \in DOMAIN row :
        /\ \A j \in DOMAIN row : row[j] <= row[k]
        /\ \A j \in DOMAIN row : row[j] = row[k] => k <= j) - 1

\* OneHotEncoder.inverse_transform, one feature of one row.
\* Returns Ok(value) or Err (IndexError).
InverseCell(enc, n_values, row, i) ==
    LET n_categories == n_values[i]
        cats == _compute_transformed_categories(enc, i)
        j    == FeatureOffset(n_values, i)
        sub  == SubSeq(row, j + 1, j + n_categories)
    IN IF n_categories = 0
       THEN Ok(PyIndex(enc.categories_[i], enc.drop_idx_[i]))
       ELSE LET labels == _argmax(sub)
            IN IF labels >= Len(cats) THEN Err
               ELSE IF enc.handle_unknown = "ignore"
                       \/ (enc.handle_unknown = "auto" /\ ~_infrequent_enabled)
                    THEN (IF SeqSum(sub) = 0 THEN Ok(PyNone) ELSE Ok(cats[labels + 1]))
               ELSE IF enc.drop.kind # "None" /\ SeqSum(sub) = 0
                    THEN Ok(PyIndex(enc.categories_[i], enc.drop_idx_[i]))
               ELSE Ok(cats[labels + 1])

OneHotEncoder_inverse_transform(enc, Xt) ==
    LET nv == _n_transformed_features(enc)
        nf == Len(enc.categories_)
    IN IF ~IsOk(nv) THEN Err
       ELSE IF Len(Xt[1]) # SeqSum(nv.v) THEN Err
       ELSE IF \E r \in DOMAIN Xt : \E i \in 1..nf : ~IsOk(InverseCell(enc, nv.v, Xt[r], i))
            THEN Err
       ELSE Ok([r \in DOMAIN Xt |-> [i \in 1..nf |-> InverseCell(enc, nv.v, Xt[r], i).v]])

\* get_feature_names(): per input feature, the categories named in the output
\* (the name 'x<i>_<cat>' is the pair <<i, cat>>).
OneHotEncoder_get_feature_names(enc) ==
    [i \in DOMAIN enc.categories_ |-> _compute_transformed_categories(enc, i)]

EIdle ==
    /\ eX = <<>>
    /\ eParams = [drop |-> [kind |-> "None", arr |-> <<>>], handle_unknown |-> "error"]
    /\ eEnc = ENotFitted
    /\ eXq = <<>>
    /\ eOut = Pending
    /\ eInv = Pending
    /\ eNames = Pending

EInit ==
    /\ eX \in Matrices(ENSamples, 1) \cup Matrices(ENSamples, 2)
    /\ eParams \in [drop : DropParams, handle_unknown : {"error", "auto"}]
    /\ eEnc = ENotFitted
    /\ eXq = <<>>
    /\ eOut = Pending
    /\ eInv = Pending
    /\ eNames = Pending

\* enc = OneHotEncoder(**eParams).fit(eX)
EFit ==
    /\ eEnc.status = "unfitted"
    /\ eEnc' = OneHotEncoder_fit(eX, eParams)
    /\ UNCHANGED <<eX, eParams, eXq, eOut, eInv, eNames>>
    /\ UNCHANGED <<hvars, mvars, svars, gvars, cvars, fvars, dvars, nvars, ivars, ovars>>

\* enc.transform([sample]) for a sample whose values all belong to categories_
ETransform ==
    /\ eEnc.status = "fitted"
    /\ eOut.st = "pending"
    /\ \E Xq \in Matrices(1, Len(eEnc.categories_)) :
          /\ \A i \in DOMAIN Xq[1] : Xq[1][i] \in Range(eEnc.categories_[i])
          /\ eXq' = Xq
          /\ eOut' = OneHotEncoder_transform(eEnc, Xq)
    /\ UNCHANGED <<eX, eParams, eEnc, eInv, eNames>>
    /\ UNCHANGED <<hvars, mvars, svars, gvars, cvars, fvars, dvars, nvars, ivars, ovars>>

\* enc.inverse_transform(enc.transform([sample]))
EInverse ==
    /\ IsOk(eOut)
    /\ eInv.st = "pending"
    /\ eInv' = OneHotEncoder_inverse_transform(eEnc, eOut.v)
    /\ UNCHANGED <<eX, eParams, eEnc, eXq, eOut, eNames>>
    /\ UNCHANGED <<hvars, mvars, svars, gvars, cvars, fvars, dvars, nvars, ivars, ovars>>

\* enc.get_feature_names()
EGetFeatureNames ==
    /\ eEnc.status = "fitted"
    /\ eNames.st = "pending"
    /\ eNames' = Ok(OneHotEncoder_get_feature_names(eEnc))
    /\ UNCHANGED <<eX, eParams, eEnc, eXq, eOut, eInv>>
    /\ UNCHANGED <<hvars, mvars, svars, gvars, cvars, fvars, dvars, nvars, ivars, ovars>>

ENext == EFit \/ ETransform \/ EInverse \/ EGetFeatureNames

\* The one-hot block of value v over the categories cats: one column per
\* category, 1 in the column of v (all zeros when v is not among them).
OneHotBlock(cats, v) == [k \in DOMAIN cats |-> IF cats[k] = v THEN 1 ELSE 0]

\* The columns of feature i in one output row, were the feature to own width
\* columns after those of the features before it (each owning widths[j]).
BlockOf(row, widths, i) ==
    SubSeq(row, FeatureOffset(widths, i) + 1, FeatureOffset(widths, i) + widths[i])

Without(cats, v) == SelectSeq(cats, LAMBDA c : c # v)

\* C3: with drop an array naming one category per feature, transform outputs
\* for each feature i exactly len(categories_[i]) - 1 columns, one for each
\* category that was not dropped, and a sample holding the dropped category
\* gets all zeros in the columns of that feature.
C3_DropArrayColumns ==
    (/\ eEnc.status = "fitted"
     /\ eEnc.drop.kind = "array"
     /\ eOut.st # "pending") =>
        LET widths == [i \in DOMAIN eEnc.categories_ |-> Len(eEnc.categories_[i]) - 1]
        IN /\ IsOk(eOut)
           /\ Len(eOut.v[1]) = SeqSum(widths)
           /\ \A i \in DOMAIN eEnc.categories_ :
                 BlockOf(eOut.v[1], widths, i) =
                     OneHotBlock(Without(eEnc.categories_[i], eEnc.drop.arr[i]), eXq[1][i])

\* C4: with drop='if_binary' a feature with 1 or more than 2 categories is
\* left intact: all its categories are retained in the output of transform,
\* in get_feature_names and in inverse_transform.
C4_IfBinaryLeavesIntact ==
    (eEnc.status = "fitted" /\ eEnc.drop.kind = "if_binary") =>
        LET widths == [i \in DOMAIN eEnc.categories_ |->
                          IF Len(eEnc.categories_[i]) = 2 THEN 1
                          ELSE Len(eEnc.categories_[i])]
        IN \A i \in DOMAIN eEnc.categories_ :
              Len(eEnc.categories_[i]) # 2 =>
                /\ eOut.st # "pending" =>
                      /\ IsOk(eOut)
                      /\ BlockOf(eOut.v[1], widths, i) =
                             OneHotBlock(eEnc.categories_[i], eXq[1][i])
                /\ eNames.st # "pending" =>
                      /\ IsOk(eNames)
                      /\ eNames.v[i] = eEnc.categories_[i]
                /\ eInv.st # "pending" =>
                      /\ IsOk(eInv)
                      /\ eInv.v[1][i] = eXq[1][i]

MNSamples == 4
MScoreMax == 2
MThresholds == 1..2

RatGreater(a, b) == a[1] * b[2] > b[1] * a[2]
RatLeq(a, b)     == ~RatGreater(a, b)

Min2(a, b) == IF a <= b THEN a ELSE b
Max2(a, b) == IF a >= b THEN a ELSE b
SeqMin(s) == CHOOSE x \in Range(s) : \A y \in Range(s) : x <= y
SeqMax(s) == CHOOSE x \in Range(s) : \A y \in Range(s) : x >= y

\* Python values handled by merge_bins: a bin (a list of seven numbers), a
\* list of bins, and a numpy integer.
\* [bl_index, score_min, score_max, score_mean, nPos_temp, total_temp, PosRate_temp]
PyBin(bl_index, score_min, score_max, score_mean, nPos, total) ==
    [t |-> "bin", bl_index |-> bl_index, score_min |-> score_min,
     score_max |-> score_max, score_mean |-> score_mean,
     nPos |-> nPos, total |-> total, PosRate |-> <<nPos, total>>]
PyList(items) == [t |-> "list", items |-> items]
PyInt(n)      == [t |-> "int", n |-> n]

\* x[-1]: the last element of a list; indexing a numpy integer raises.
PyLast(x) ==
    IF x.t = "bin" THEN Ok(x.PosRate)
    ELSE IF x.t = "list" /\ Len(x.items) > 0 THEN Ok(x.items[Len(x.items)])
    ELSE Err

\* Counts every sample, not only the positive ones (drops `if y > 0`).
RECURSIVE Mut_bin_right_index_array(_, _, _, _)
Mut_bin_right_index_array(sorted_target, threshold_pos, i, count) ==
    IF i >= Len(sorted_target) THEN <<>>
    ELSE IF count + 1 = threshold_pos
         THEN <<i>> \o Mut_bin_right_index_array(sorted_target, threshold_pos, i + 1, 0)
         ELSE Mut_bin_right_index_array(sorted_target, threshold_pos, i + 1, count + 1)

\* The right-boundary index of each bin (construct_initial_bin, the first loop),
\* from position i on, with `count` positives seen since the last boundary.
RECURSIVE bin_right_index_array(_, _, _, _)
bin_right_index_array(sorted_target, threshold_pos, i, count) ==
    IF i >= Len(sorted_target) THEN <<>>
    ELSE LET c == IF sorted_target[i + 1] > 0 THEN count + 1 ELSE count
         IN IF c = threshold_pos
            THEN <<i>> \o bin_right_index_array(sorted_target, threshold_pos, i + 1, 0)
            ELSE bin_right_index_array(sorted_target, threshold_pos, i + 1, c)

\* construct_initial_bin, the second loop: the bins from boundary k on.
RECURSIVE bin_info_from(_, _, _, _, _, _)
bin_info_from(sorted_score, sorted_target, threshold_pos, br, k, bl_index) ==
    IF k > Len(br) THEN Ok(<<>>)
    ELSE LET br_index   == br[k]
             score_temp == SubSeq(sorted_score, bl_index + 1, br_index + 1)
             target_row == SubSeq(sorted_target, bl_index + 1, br_index + 1)
             nPos_temp  == SeqSum(target_row)
             last_index == Len(sorted_target) - 1
         IN IF Len(score_temp) = 0 THEN Err
            ELSE IF br_index # last_index /\ nPos_temp # threshold_pos THEN Err
            ELSE LET rest == bin_info_from(sorted_score, sorted_target, threshold_pos,
                                           br, k + 1, br_index + 1)
                     bin  == PyBin(bl_index, SeqMin(score_temp), SeqMax(score_temp),
                                   <<SeqSum(score_temp), Len(score_temp)>>,
                                   nPos_temp, Len(target_row))
                 IN IF ~IsOk(rest) THEN Err ELSE Ok(<<bin>> \o rest.v)

\* Returns the tuple (bin_info, total_number_pos).
construct_initial_bin(sorted_score, sorted_target, threshold_pos) ==
    LET last_index == Len(sorted_target) - 1
        br0 == bin_right_index_array(sorted_target, threshold_pos, 0, 0)
        br  == IF last_index \in Range(br0) THEN br0 ELSE Append(br0, last_index)
        b   == bin_info_from(sorted_score, sorted_target, threshold_pos, br, 1, 0)
    IN IF ~IsOk(b) THEN Err
       ELSE Ok(<<PyList(b.v), PyInt(SeqSum([k \in DOMAIN b.v |-> b.v[k].nPos]))>>)

MergeTwo(current_bin, next_bin) ==
    PyBin(Min2(current_bin.bl_index, next_bin.bl_index),
          Min2(current_bin.score_min, next_bin.score_min),
          Max2(current_bin.score_max, next_bin.score_max),
          <<current_bin.score_mean[1] * next_bin.score_mean[2]
              + next_bin.score_mean[1] * current_bin.score_mean[2],
            2 * current_bin.score_mean[2] * next_bin.score_mean[2]>>,
          current_bin.nPos + next_bin.nPos,
          current_bin.total + next_bin.total)

\* merge_bins, the loop from index i (0-based) on; acc is (result, increasing_flag).
RECURSIVE merge_loop(_, _, _)
merge_loop(binning_input, i, acc) ==
    IF i >= Len(binning_input) THEN Ok(acc)
    ELSE LET result      == IF i = 1 THEN Append(acc.result, binning_input[1])
                            ELSE acc.result
             current_bin == result[Len(result)]
             next_bin    == binning_input[i + 1]
             cur         == PyLast(current_bin)
             nxt         == PyLast(next_bin)
         IN IF ~IsOk(cur) \/ ~IsOk(nxt) THEN Err
            ELSE IF RatGreater(cur.v, nxt.v)
            THEN merge_loop(binning_input, i + 1,
                     [result |-> [result EXCEPT ![Len(result)] =
                                     MergeTwo(current_bin, next_bin)],
                      increasing_flag |-> FALSE])
            ELSE merge_loop(binning_input, i + 1,
                     [result |-> Append(result, next_bin),
                      increasing_flag |-> acc.increasing_flag])

merge_bins(binning_input, increasing_flag) ==
    merge_loop(binning_input, 1, [result |-> <<>>, increasing_flag |-> increasing_flag])

\* run_merge_function: merge until a pass finds the rates increasing.
\* Returns [new_bin_temp].
RECURSIVE run_merge_function(_)
run_merge_function(current_binning) ==
    LET m == merge_bins(current_binning, TRUE)
    IN IF ~IsOk(m) THEN Err
       ELSE IF m.v.increasing_flag THEN Ok(<<m.v.result>>)
       ELSE run_merge_function(m.v.result)

get_bin_boundary(current_binning, boundary_choice) ==
    [i \in DOMAIN current_binning |->
        IF boundary_choice = 0 THEN current_binning[i].score_min
        ELSE IF boundary_choice = 2 THEN current_binning[i].score_mean
        ELSE current_binning[i].score_max]

\* The truth value of `np.unique(y_target) == np.array([0, 1])` in an assert:
\* the comparison of two arrays is an array, whose truth value raises
\* ValueError unless it has exactly one element.
AssertUniqueIsBinary(y_target) ==
    LET u == SortedSeq(Range(y_target))
    IN IF Len(u) = 2 /\ u = <<0, 1>> THEN Err      \* array([True, True])
       ELSE IF Len(u) = 1 THEN Err                 \* broadcast to two elements
       ELSE Ok(FALSE)

\* _mimic_calibration on the data in the order given by sorted_index.
\* asserts is FALSE when the interpreter runs with -O.
_mimic_calibration(y_score, y_target, number_positive_within_bin, boundary_choice, sorted_index, asserts) ==
    IF asserts /\ ~(SeqMin(y_score) >= 0 /\ SeqMax(y_score) <= MScoreMax) THEN Err
    ELSE IF asserts /\ ~IsOk(AssertUniqueIsBinary(y_target)) THEN Err
    ELSE IF asserts /\ ~AssertUniqueIsBinary(y_target).v THEN Err
    ELSE
      LET sorted_score    == Take(y_score, sorted_index)
          sorted_target   == Take(y_target, sorted_index)
          initial_binning == construct_initial_bin(sorted_score, sorted_target,
                                                   number_positive_within_bin)
      IN IF ~IsOk(initial_binning) THEN Err
         ELSE LET final_binning == run_merge_function(initial_binning.v)
              IN IF ~IsOk(final_binning) THEN Err
                 ELSE LET latest_bin_temp == final_binning.v[Len(final_binning.v)]
                      IN Ok([boundary_table |->
                                get_bin_boundary(latest_bin_temp, boundary_choice),
                             calibrated_model |-> latest_bin_temp])

\* The index arrays y_score.argsort() may return: a permutation putting the
\* scores in non-decreasing order (the order among equal scores is the sort
\* algorithm's).
ArgSorts(y_score) ==
    {p \in [1..Len(y_score) -> 1..Len(y_score)] :
        /\ \A a, b \in 1..Len(y_score) : a # b => p[a] # p[b]
        /\ \A a \in 1..(Len(y_score) - 1) : y_score[p[a]] <= y_score[p[a + 1]]}

MIdle ==
    /\ mScore = <<>>
    /\ mTarget = <<>>
    /\ mThresh = 0
    /\ mFit = Pending
    /\ mBins = Pending
    /\ mMerged = Pending

MInit ==
    /\ mScore \in [1..MNSamples -> 0..MScoreMax]
    /\ mTarget \in [1..MNSamples -> {0, 1}]
    /\ 0 \in Range(mTarget) /\ 1 \in Range(mTarget)
    /\ mThresh \in MThresholds
    /\ mFit = Pending
    /\ mBins = Pending
    /\ mMerged = Pending

\* _MimicCalibration(threshold_pos=mThresh).fit(mScore, mTarget)
MFit ==
    /\ mFit.st = "pending"
    /\ \E sorted_index \in ArgSorts(mScore) : \E asserts \in BOOLEAN :
          mFit' = _mimic_calibration(mScore, mTarget, mThresh, 2, sorted_index, asserts)
    /\ UNCHANGED <<mScore, mTarget, mThresh, mBins, mMerged>>
    /\ UNCHANGED <<hvars, evars, svars, gvars, cvars, fvars, dvars, nvars, ivars, ovars>>

\* test_mimic_calibration_2: bin_info, total_number_pos =
\*     construct_initial_bin(y_score, y_target, threshold_pos)
MConstruct ==
    /\ mBins.st = "pending"
    /\ \E sorted_index \in ArgSorts(mScore) :
          mBins' = construct_initial_bin(Take(mScore, sorted_index),
                                         Take(mTarget, sorted_index), mThresh)
    /\ UNCHANGED <<mScore, mTarget, mThresh, mFit, mMerged>>
    /\ UNCHANGED <<hvars, evars, svars, gvars, cvars, fvars, dvars, nvars, ivars, ovars>>

\* test_mimic_calibration_2: run_merge_function(current_binning) with
\* current_binning = bin_info
MMerge ==
    /\ IsOk(mBins)
    /\ mMerged.st = "pending"
    /\ mMerged' = run_merge_function(mBins.v[1].items)
    /\ UNCHANGED <<mScore, mTarget, mThresh, mFit, mBins>>
    /\ UNCHANGED <<hvars, evars, svars, gvars, cvars, fvars, dvars, nvars, ivars, ovars>>

MNext == MFit \/ MConstruct \/ MMerge

NonDecreasingRate(bins) ==
    \A k \in 1..(Len(bins) - 1) : RatLeq(bins[k].PosRate, bins[k + 1].PosRate)

\* C6: fit(X, y) with scores in [0, 1] and binary targets completes and
\* stores a calibrated_model whose bins have non-decreasing positive rate,
\* and a boundary_table with one boundary per bin of that model.
C6_FitStoresMonotoneModel ==
    mFit.st # "pending" =>
        /\ IsOk(mFit)
        /\ NonDecreasingRate(mFit.v.calibrated_model)
        /\ Len(mFit.v.boundary_table) = Len(mFit.v.calibrated_model)

\* The bins lie one after the other and cover samples 0 .. n - 1.
ConsecutiveBins(bins, n) ==
    /\ Len(bins) >= 1
    /\ bins[1].bl_index = 0
    /\ \A k \in 1..(Len(bins) - 1) : bins[k + 1].bl_index = bins[k].bl_index + bins[k].total
    /\ bins[Len(bins)].bl_index + bins[Len(bins)].total = n
    /\ \A k \in DOMAIN bins : bins[k].total >= 1

\* C18: construct_initial_bin splits the score-sorted samples into
\* consecutive bins, and every bin except the last holds exactly
\* threshold_pos positives.
C18_BinsHoldThresholdPositives ==
    mBins.st # "pending" =>
        /\ IsOk(mBins)
        /\ ConsecutiveBins(mBins.v[1].items, Len(mTarget))
        /\ \A k \in 1..(Len(mBins.v[1].items) - 1) : mBins.v[1].items[k].nPos = mThresh
        /\ mBins.v[2].n = SeqSum(mTarget)

\* construct_initial_bin returned at least three bins and the last one does
\* not hold threshold_pos positives.
C18_Witness ==
    /\ IsOk(mBins)
    /\ Len(mBins.v[1].items) >= 3
    /\ mBins.v[1].items[Len(mBins.v[1].items)].nPos # mThresh

\* C20: merging never loses samples: for every input binning with at least
\* one bin, the binning run_merge_function returns is non-empty and its
\* per-bin sample totals and positive counts add up to those of the input.
C20_MergeKeepsSamples ==
    (IsOk(mBins) /\ Len(mBins.v[1].items) >= 1 /\ mMerged.st # "pending") =>
        /\ IsOk(mMerged)
        /\ LET merged == mMerged.v[Len(mMerged.v)]
               input  == mBins.v[1].items
           IN /\ Len(merged) >= 1
              /\ SeqSum([k \in DOMAIN merged |-> merged[k].total]) = SeqSum([k \in DOMAIN input |-> input[k].total])
              /\ SeqSum([k \in DOMAIN merged |-> merged[k].nPos]) = SeqSum([k \in DOMAIN input |-> input[k].nPos])

(***************************************************************************)
(* ScoreCutModelSelector and its selectors                                 *)
(* (sklearn/model_selection/_subselect.py)                                 *)
(* Models are indexed from 0 as in the source.  A float is the pair        *)
(* <<numerator, denominator>>; an Optional[float] is tagged "None" or      *)
(* "float".  Scores are finite (no NaN), so the nan-aware reductions are   *)
(* the plain ones.  by_standard_error needs a square root and is not       *)
(* modelled.                                                               *)
(***************************************************************************)
NModels == 3
Models == 0..(NModels - 1)
SScores == {-1, 0, 1}
SFoldCounts == {2, 3}
SCuts == {-1, 0, 1}
EtaQuarters == 0..5      \* eta = q / 4; q = 5 is rejected by the constructor

PyNoneCut == [t |-> "None", v |-> <<0, 1>>]
PyFloat(r) == [t |-> "float", v |-> r]

\* Truth value of an Optional[float]: None and 0.0 are both false.
PyTruthy(x) == x.t = "float" /\ x.v[1] # 0

_n_folds(score_grid) == Len(score_grid[0])

_cv_means(score_grid) ==
    [i \in Models |-> <<SeqSum(score_grid[i]), Len(score_grid[i])>>]

nanmax(cv_means, idx) ==
    cv_means[CHOOSE i \in idx : \A j \in idx : RatLeq(cv_means[j], cv_means[i])]

nanmin(cv_means, idx) ==
    cv_means[CHOOSE i \in idx : \A j \in idx : RatLeq(cv_means[i], cv_means[j])]

\* np.nanargmax / np.nanargmin: the first index holding the extreme value.
_best_score_idx(score_grid) ==
    LET m == _cv_means(score_grid)
    IN CHOOSE i \in Models :
          /\ \A j \in Models : RatLeq(m[j], m[i])
          /\ \A j \in Models : j < i => RatGreater(m[i], m[j])

_lowest_score_idx(score_grid) ==
    LET m == _cv_means(score_grid)
    IN CHOOSE i \in Models :
          /\ \A j \in Models : RatLeq(m[i], m[j])
          /\ \A j \in Models : j < i => RatGreater(m[j], m[i])

\* cv_results_["rank_test_score"] as the search fills it in: rank 1 is the
\* highest mean test score, ties share the lowest rank.
rank_test_score(score_grid) ==
    LET m == _cv_means(score_grid)
    IN [i \in Models |-> 1 + Cardinality({j \in Models : RatGreater(m[j], m[i])})]

\* by_fixed_window(min_cut, max_cut): the constructor, then __call__.
by_fixed_window(min_cut, max_cut) ==
    IF min_cut.t # "None" /\ max_cut.t # "None" /\ RatGreater(min_cut.v, max_cut.v)
    THEN Err
    ELSE Ok(<<min_cut, max_cut>>)

\* by_signed_rank.__call__.  not_different[j] is the outcome of
\* pvals[pair] > alpha for the pair made of j and best_score_idx.
by_signed_rank(score_grid, cv_means, best_score_idx, n_folds, not_different) ==
    IF n_folds < 3 THEN Err
    ELSE LET tests == {pair \in Models \X Models :
                          pair[1] < pair[2] /\ best_score_idx \in {pair[1], pair[2]}}
             other(pair) == IF pair[1] = best_score_idx THEN pair[2] ELSE pair[1]
             surviving_ranks ==
                 {pair[1] : pair \in {q \in tests : not_different[other(q)]}}
                     \cup {best_score_idx}
         IN Ok(<<PyFloat(nanmin(cv_means, surviving_ranks)),
                 PyFloat(nanmax(cv_means, surviving_ranks))>>)

\* np.nanpercentile(row, 25 * q) with linear interpolation, in quarters.
nanpercentile(row, q) ==
    LET v   == SortSeq(row, LAMBDA a, b : a < b)
        pos == q * (Len(v) - 1)
        lo  == pos \div 4
        fr  == pos % 4
    IN IF fr = 0 THEN <<4 * v[lo + 1], 4>>
       ELSE <<4 * v[lo + 1] + fr * (v[lo + 2] - v[lo + 1]), 4>>

\* by_percentile_rank(eta = q / 4): the constructor, then __call__.
by_percentile_rank(q, score_grid, best_score_idx) ==
    IF q < 0 \/ q > 4 THEN Err
    ELSE LET max_cut == nanpercentile(score_grid[best_score_idx], q)
             min_cut == nanpercentile(score_grid[best_score_idx], 4 - q)
         IN Ok(<<PyFloat(min_cut), PyFloat(max_cut)>>)

_apply_thresh(score_grid, min_cut, max_cut) ==
    LET cv_means == _cv_means(score_grid)
        lo == IF ~PyTruthy(min_cut) THEN nanmin(cv_means, Models) ELSE min_cut.v
        hi == IF ~PyTruthy(max_cut) THEN nanmax(cv_means, Models) ELSE max_cut.v
        performance_mask ==
            [i \in Models |-> RatLeq(lo, cv_means[i]) /\ RatLeq(cv_means[i], hi)]
        kept == {i \in Models : performance_mask[i]}
        rank == rank_test_score(score_grid)
    IN IF kept = {} THEN Err
       ELSE LET highest_surviving_rank ==
                    CHOOSE r \in {rank[i] : i \in kept} : \A i \in kept : rank[i] <= r
                index == CHOOSE i \in Models :
                            /\ rank[i] = highest_surviving_rank
                            /\ \A j \in Models : j < i => rank[j] # highest_surviving_rank
            IN Ok([index |-> index, mask |-> performance_mask])

\* fit_transform once the selector has returned `window`: _apply_thresh is
\* called twice with the same cuts and the second result is returned.
fit_transform(score_grid, window) ==
    IF ~IsOk(window) THEN Err
    ELSE LET best_index_ == _apply_thresh(score_grid, window.v[1], window.v[2])
         IN IF ~IsOk(best_index_) THEN Err
            ELSE _apply_thresh(score_grid, window.v[1], window.v[2])

NoSelector == [kind |-> "none", min_cut |-> PyNoneCut, max_cut |-> PyNoneCut,
               eta |-> 0, not_different |-> [j \in Models |-> FALSE]]

SIdle ==
    /\ sGrid = <<>>
    /\ sSel = NoSelector
    /\ sWindow = Pending
    /\ sOut = Pending

\* ScoreCutModelSelector(cv_results_) of a finished search.
SInit ==
    /\ \E f \in SFoldCounts : sGrid \in [Models -> [1..f -> SScores]]
    /\ sSel = NoSelector
    /\ sWindow = Pending
    /\ sOut = Pending

Cuts == {PyNoneCut} \cup {PyFloat(<<c, 1>>) : c \in SCuts}

\* ss.fit_transform(by_fixed_window(min_cut, max_cut))
SFixedWindow ==
    /\ sOut.st = "pending"
    /\ \E min_cut \in Cuts : \E max_cut \in Cuts :
          LET window == by_fixed_window(min_cut, max_cut)
          IN /\ sSel' = [NoSelector EXCEPT !.kind = "by_fixed_window",
                                           !.min_cut = min_cut, !.max_cut = max_cut]
             /\ sWindow' = window
             /\ sOut' = fit_transform(sGrid, window)
    /\ UNCHANGED sGrid
    /\ UNCHANGED <<hvars, evars, mvars, gvars, cvars, fvars, dvars, nvars, ivars, ovars>>

\* ss.fit_transform(by_signed_rank())
SSignedRank ==
    /\ sOut.st = "pending"
    /\ \E not_different \in [Models -> BOOLEAN] :
          LET best   == _best_score_idx(sGrid)
              window == by_signed_rank(sGrid, _cv_means(sGrid), best,
                                       _n_folds(sGrid), not_different)
          IN /\ not_different[best]
             /\ sSel' = [NoSelector EXCEPT !.kind = "by_signed_rank",
                                           !.not_different = not_different]
             /\ sWindow' = window
             /\ sOut' = fit_transform(sGrid, window)
    /\ UNCHANGED sGrid
    /\ UNCHANGED <<hvars, evars, mvars, gvars, cvars, fvars, dvars, nvars, ivars, ovars>>

\* ss.fit_transform(by_percentile_rank(eta))
SPercentileRank ==
    /\ sOut.st = "pending"
    /\ \E q \in EtaQuarters :
          LET window == by_percentile_rank(q, sGrid, _best_score_idx(sGrid))
          IN /\ sSel' = [NoSelector EXCEPT !.kind = "by_percentile_rank", !.eta = q]
             /\ sWindow' = window
             /\ sOut' = fit_transform(sGrid, window)
    /\ UNCHANGED sGrid
    /\ UNCHANGED <<hvars, evars, mvars, gvars, cvars, fvars, dvars, nvars, ivars, ovars>>

SNext == SFixedWindow \/ SSignedRank \/ SPercentileRank

\* C7: fit_transform returns the lowest index among the models whose mean
\* score lies within the window (the models the performance mask keeps).
C7_ReturnsLowestIndexInWindow ==
    IsOk(sOut) =>
        /\ sOut.v.mask[sOut.v.index]
        /\ \A j \in Models : sOut.v.mask[j] => sOut.v.index <= j

\* C8: the window by_signed_rank returns contains the mean score of every
\* model whose test against the best model has a p-value above alpha,
\* wherever the model stands in the grid relative to the best one.
C8_WindowHoldsEveryNotDifferentModel ==
    (sSel.kind = "by_signed_rank" /\ IsOk(sWindow)) =>
        \A j \in Models :
            sSel.not_different[j] =>
                /\ RatLeq(sWindow.v[1].v, _cv_means(sGrid)[j])
                /\ RatLeq(_cv_means(sGrid)[j], sWindow.v[2].v)

\* The models by_fixed_window(min_cut, max_cut) is documented to keep: a
\* bound of None stands for the lowest / highest mean score.
FixedWindowKeeps(score_grid, min_cut, max_cut) ==
    LET m  == _cv_means(score_grid)
        lo == IF min_cut.t = "None" THEN nanmin(m, Models) ELSE min_cut.v
        hi == IF max_cut.t = "None" THEN nanmax(m, Models) ELSE max_cut.v
    IN {i \in Models : RatLeq(lo, m[i]) /\ RatLeq(m[i], hi)}

\* C9: with by_fixed_window(min_cut, max_cut) the selector keeps exactly the
\* models whose mean score lies in the window the user gave, only a bound of
\* None being replaced by the lowest or highest mean score.
C9_FixedWindowKeepsGivenWindow ==
    (sSel.kind = "by_fixed_window" /\ IsOk(sOut)) =>
        {i \in Models : sOut.v.mask[i]}
            = FixedWindowKeeps(sGrid, sSel.min_cut, sSel.max_cut)

\* C10: for every eta the by_percentile_rank constructor accepts, the
\* returned min_cut is not above the returned max_cut.
C10_PercentileWindowOrdered ==
    (sSel.kind = "by_percentile_rank" /\ IsOk(sWindow)) =>
        RatLeq(sWindow.v[1].v, sWindow.v[2].v)

(***************************************************************************)
(* _GeneralizedLinearRegressor and NewtonSolver                            *)
(* (sklearn/linear_model/_glm/glm.py)                                      *)
(* The numerical work of a solver is left out; what a run does to the      *)
(* iteration counters is decided by two inputs: the Newton iteration at    *)
(* which check_convergence sets `converged`, and the one at which          *)
(* inner_solve sets `stop` (GMaxIter + 1 stands for never).                *)
(***************************************************************************)
GMaxIter == 3
GMaxFits == 2

GSolvers == {"lbfgs", "newton-cholesky", "newton-qr-cholesky", "newton-lsmr",
             "NewtonSolver subclass", "sgd"}
GBuiltinNewton == {"newton-cholesky", "newton-qr-cholesky", "newton-lsmr"}

AttrMissing == [set |-> FALSE, n |-> 0]
Attr(n) == [set |-> TRUE, n |-> n]

\* The while loop of NewtonSolver.solve.  `started` counts the Newton steps
\* begun (inner_solve called), `completed` those that reached step 5.
RECURSIVE newton_loop(_, _, _, _)
newton_loop(sol, max_iter, conv_at, stop_at) ==
    IF sol.iteration <= max_iter /\ ~sol.converged
    THEN LET begun == [sol EXCEPT !.started = @ + 1]
         IN IF stop_at = sol.iteration
            THEN [begun EXCEPT !.stop = TRUE]
            ELSE newton_loop([begun EXCEPT !.converged = (conv_at = sol.iteration),
                                           !.iteration = @ + 1,
                                           !.completed = @ + 1],
                             max_iter, conv_at, stop_at)
    ELSE sol

\* The same procedure without the final `self.iteration -= 1`.
Mut_NewtonSolver_solve(max_iter, conv_at, stop_at) ==
    newton_loop([iteration |-> 1, converged |-> FALSE, stop |-> FALSE,
                 started |-> 0, completed |-> 0],
                max_iter, conv_at, stop_at)

NewtonSolver_solve(max_iter, conv_at, stop_at) ==
    LET sol == newton_loop([iteration |-> 1, converged |-> FALSE, stop |-> FALSE,
                            started |-> 0, completed |-> 0],
                           max_iter, conv_at, stop_at)
    IN [sol EXCEPT !.iteration = @ - 1]

NoSolve == [iteration |-> 0, converged |-> FALSE, stop |-> FALSE,
            started |-> 0, completed |-> 0]

\* _GeneralizedLinearRegressor.fit.  nit is the iteration count the lbfgs
\* optimizer reports.  Returns the outcome, the new n_iter_ attribute, the
\* number of iterations the solver used, and the Newton solver's counters.
GLM_fit(solver, max_iter, n_iter_, nit, conv_at, stop_at) ==
    IF solver \notin (GSolvers \ {"sgd"}) \/ max_iter < 1
    THEN [st |-> "error", n_iter_ |-> n_iter_, used |-> 0, newton |-> FALSE,
          max_iter |-> max_iter, sol |-> NoSolve]
    ELSE IF solver = "lbfgs"
    THEN [st |-> "ok", n_iter_ |-> Attr(nit), used |-> nit, newton |-> FALSE,
          max_iter |-> max_iter, sol |-> NoSolve]
    ELSE IF solver \in GBuiltinNewton
    THEN LET sol == NewtonSolver_solve(max_iter, conv_at, GMaxIter + 1)
         IN [st |-> "ok", n_iter_ |-> Attr(sol.iteration), used |-> sol.completed,
             newton |-> TRUE, max_iter |-> max_iter, sol |-> sol]
    ELSE LET sol == NewtonSolver_solve(max_iter, conv_at, stop_at)
         IN [st |-> "ok", n_iter_ |-> n_iter_, used |-> sol.completed,
             newton |-> TRUE, max_iter |-> max_iter, sol |-> sol]

GNoFit == [st |-> "pending", n_iter_ |-> AttrMissing, used |-> 0, newton |-> FALSE,
           max_iter |-> 0, sol |-> NoSolve]

GIdle ==
    /\ gSolver = ""
    /\ gMaxIter = 0
    /\ gNIter = AttrMissing
    /\ gLast = GNoFit
    /\ gFits = 0

\* _GeneralizedLinearRegressor(solver=..., max_iter=...)
GInit ==
    /\ gSolver \in GSolvers
    /\ gMaxIter \in 0..GMaxIter
    /\ gNIter = AttrMissing
    /\ gLast = GNoFit
    /\ gFits = 0

\* est.set_params(solver=..., max_iter=...) between two fits
GSetParams ==
    /\ gFits \in 1..(GMaxFits - 1)
    /\ gSolver' \in GSolvers
    /\ gMaxIter' \in 0..GMaxIter
    /\ <<gSolver', gMaxIter'>> # <<gSolver, gMaxIter>>
    /\ UNCHANGED <<gNIter, gLast, gFits>>
    /\ UNCHANGED <<hvars, evars, mvars, svars, cvars, fvars, dvars, nvars, ivars, ovars>>

\* est.fit(X, y)
GFit ==
    /\ gFits < GMaxFits
    /\ \E nit \in 0..gMaxIter : \E conv_at, stop_at \in 1..(GMaxIter + 1) :
          LET r == GLM_fit(gSolver, gMaxIter, gNIter, nit, conv_at, stop_at)
          IN /\ gLast' = r
             /\ gNIter' = r.n_iter_
    /\ gFits' = gFits + 1
    /\ UNCHANGED <<gSolver, gMaxIter>>
    /\ UNCHANGED <<hvars, evars, mvars, svars, cvars, fvars, dvars, nvars, ivars, ovars>>

GNext == GSetParams \/ GFit

\* C11: after a successful fit with any solver fit accepts, n_iter_ is set
\* and holds the number of iterations the solver used in that fit.
C11_NIterIsThisFitsCount ==
    gLast.st = "ok" => (gNIter.set /\ gNIter.n = gLast.used)

\* C12: NewtonSolver.solve begins at most max_iter Newton steps, and on
\* return `iteration` is the number of Newton iterations that ran to
\* completion, between 0 and max_iter.
C12_IterationCountsCompletedSteps ==
    (gLast.st = "ok" /\ gLast.newton) =>
        /\ gLast.sol.started <= gLast.max_iter
        /\ gLast.sol.iteration = gLast.sol.completed
        /\ 0 <= gLast.sol.iteration
        /\ gLast.sol.iteration <= gLast.max_iter

\* A solve that was interrupted by `stop` after at least one full iteration.
C12_Witness ==
    /\ gLast.st = "ok" /\ gLast.newton
    /\ gLast.sol.stop
    /\ gLast.sol.completed >= 1
    /\ gLast.sol.started = gLast.sol.completed + 1

(***************************************************************************)
(* SelectFromModelCV.fit (sklearn/feature_selection/from_model.py)         *)
(* One task per fold runs _sfm_single_fit on the same SelectFromModel      *)
(* object sfm.  With n_jobs = 1 the tasks run one after the other; with a  *)
(* process backend each task works on its own pickled copy of sfm; with    *)
(* the threading backend all tasks share sfm.  The clone made by task k is *)
(* named k; cFittedOn[c] is the fold whose training split clone c was last *)
(* fitted on (0: not fitted).                                              *)
(***************************************************************************)
CVFolds == 3
Folds == 1..CVFolds
CBackends == {"loky", "threading"}
CNJobs == {1, 2}

\* The memory in which task k finds sfm: 0 is the caller's object.
SfmOf(backend, n_jobs, k) == IF n_jobs # 1 /\ backend = "loky" THEN k ELSE 0

InFlight(pc) == Cardinality({j \in Folds : pc[j] \in {"cloned", "fitted"}})

CIdle ==
    /\ cBackend = ""
    /\ cNJobs = 0
    /\ cPc = <<>>
    /\ cEst = <<>>
    /\ cFittedOn = <<>>
    /\ cImportances = <<>>

\* SelectFromModelCV(estimator, n_jobs=..., cv=CVFolds).fit(X, y), up to the
\* dispatch of the fold tasks.
CInit ==
    /\ cBackend \in CBackends
    /\ cNJobs \in CNJobs
    /\ cPc = [k \in Folds |-> "start"]
    /\ cEst = [s \in 0..CVFolds |-> 0]
    /\ cFittedOn = [c \in Folds |-> 0]
    /\ cImportances = [k \in Folds |-> [st |-> "pending", fold |-> 0]]

\* SelectFromModel._fit, first statement: self.estimator_ = clone(self.estimator).
\* Tasks are dispatched in fold order, at most n_jobs at a time.
CClone ==
    \E k \in Folds :
        /\ cPc[k] = "start"
        /\ \A j \in Folds : j < k => cPc[j] # "start"
        /\ InFlight(cPc) < cNJobs
        /\ cEst' = [cEst EXCEPT ![SfmOf(cBackend, cNJobs, k)] = k]
        /\ cPc' = [cPc EXCEPT ![k] = "cloned"]
        /\ UNCHANGED <<cBackend, cNJobs, cFittedOn, cImportances>>
        /\ UNCHANGED <<hvars, evars, mvars, svars, gvars, fvars, dvars, nvars, ivars, ovars>>

\* SelectFromModel._fit, second statement: self.estimator_.fit(X_train, y_train)
CFitEstimator ==
    \E k \in Folds :
        /\ cPc[k] = "cloned"
        /\ cFittedOn' = [cFittedOn EXCEPT ![cEst[SfmOf(cBackend, cNJobs, k)]] = k]
        /\ cPc' = [cPc EXCEPT ![k] = "fitted"]
        /\ UNCHANGED <<cBackend, cNJobs, cEst, cImportances>>
        /\ UNCHANGED <<hvars, evars, mvars, svars, gvars, fvars, dvars, nvars, ivars, ovars>>

\* _sfm_single_fit: return _get_feature_importances(sfm.estimator_)
CGetImportances ==
    \E k \in Folds :
        /\ cPc[k] = "fitted"
        /\ LET estimator_ == cEst[SfmOf(cBackend, cNJobs, k)]
           IN cImportances' = [cImportances EXCEPT ![k] =
                  IF cFittedOn[estimator_] = 0
                  THEN [st |-> "error", fold |-> 0]
                  ELSE [st |-> "ok", fold |-> cFittedOn[estimator_]]]
        /\ cPc' = [cPc EXCEPT ![k] = "done"]
        /\ UNCHANGED <<cBackend, cNJobs, cEst, cFittedOn>>
        /\ UNCHANGED <<hvars, evars, mvars, svars, gvars, fvars, dvars, nvars, ivars, ovars>>

CNext == CClone \/ CFitEstimator \/ CGetImportances

\* C13: for every n_jobs and every interleaving of the fold tasks, the k-th
\* entry of feature_importances_cv is the importance vector of the
\* estimator fitted on the k-th fold's training split.
C13_ImportancesBelongToTheirFold ==
    \A k \in Folds :
        cPc[k] = "done" => cImportances[k] = [st |-> "ok", fold |-> k]

(***************************************************************************)
(* FactorAnalysis.fit (sklearn/decomposition/factor_analysis.py)           *)
(* Only what fit does to arrays in memory is modelled, not the EM          *)
(* iterations, which read X and write the fitted attributes only.  An      *)
(* array is a matrix of numerators over one denominator; the heap holds    *)
(* the caller's array and the array as_float_array may allocate.           *)
(***************************************************************************)
FNSamples == 2
FNFeatures == 2
FValues == {-1, 0, 1}

FArray(num, den) == [num |-> num, den |-> den]
NoArray == FArray(<<>>, 1)

\* Element-wise equality of two arrays of the same shape.
ArrEq(a, b) ==
    /\ DOMAIN a.num = DOMAIN b.num
    /\ \A i \in DOMAIN a.num : \A j \in DOMAIN a.num[i] :
          a.num[i][j] * b.den = b.num[i][j] * a.den

\* as_float_array(X, copy): for a float array, a new array with the same
\* content when copy is true, X itself otherwise.  Returns the heap and the
\* name of the array returned.
as_float_array(heap, X, copy) ==
    IF copy THEN [heap |-> [heap EXCEPT !.copy = heap[X]], ref |-> "copy"]
    ELSE [heap |-> heap, ref |-> X]

\* X -= np.mean(X, axis=0), in place.
CenterInPlace(arr) ==
    LET n == Len(arr.num)
        colsum(j) == SeqSum([i \in 1..n |-> arr.num[i][j]])
    IN FArray([i \in 1..n |-> [j \in DOMAIN arr.num[i] |-> n * arr.num[i][j] - colsum(j)]],
              n * arr.den)

\* FactorAnalysis.fit(X): the heap after the call and whether it raised.
FactorAnalysis_fit(heap, copy, n_components) ==
    LET converted == as_float_array(heap, "caller", copy)   \* its result is dropped
        X == "caller"
        n_features == Len(heap[X].num[1])
        centered == [converted.heap EXCEPT ![X] = CenterInPlace(converted.heap[X])]
    IN [st |-> IF n_components >= n_features THEN "error" ELSE "ok", heap |-> centered]

FIdle ==
    /\ fHeap = [caller |-> NoArray, copy |-> NoArray]
    /\ fX0 = NoArray
    /\ fCopy = FALSE
    /\ fNComp = 0
    /\ fOut = "pending"

\* FactorAnalysis(n_components, copy=...) and the caller's float array X
FInit ==
    /\ \E num \in [1..FNSamples -> [1..FNFeatures -> FValues]] :
          /\ fX0 = FArray(num, 1)
          /\ fHeap = [caller |-> FArray(num, 1), copy |-> NoArray]
    /\ fCopy \in BOOLEAN
    /\ fNComp \in 1..FNFeatures
    /\ fOut = "pending"

\* fa.fit(X)
FFit ==
    /\ fOut = "pending"
    /\ LET r == FactorAnalysis_fit(fHeap, fCopy, fNComp)
       IN /\ fHeap' = r.heap
          /\ fOut' = r.st
    /\ UNCHANGED <<fX0, fCopy, fNComp>>
    /\ UNCHANGED <<hvars, evars, mvars, svars, gvars, cvars, dvars, nvars, ivars, ovars>>

FNext == FFit

\* C14: with copy=True, fit does not overwrite the caller's input array.
C14_CopyLeavesInputIntact ==
    (fOut # "pending" /\ fCopy) => ArrEq(fHeap.caller, fX0)

(***************************************************************************)
(* HDBSCAN.fit on a dense precomputed distance matrix                      *)
(* (sklearn/cluster/_hdbscan/hdbscan.py, _hdbscan_brute)                   *)
(* Only what fit does to arrays in memory is modelled.  The heap holds the *)
(* caller's float64 matrix, the array X.copy() allocates and the array the *)
(* out-of-place division allocates.                                        *)
(***************************************************************************)
DNSamples == 3
DMaxDist == 2
DAlphas == {1, 2}
DAlgorithms == {"auto", "brute", "kdtree"}

\* Symmetric distance matrices with a zero diagonal.
DistanceMatrices ==
    {d \in [1..DNSamples -> [1..DNSamples -> 0..DMaxDist]] :
        \A i, j \in 1..DNSamples :
            /\ d[i][j] = d[j][i]
            /\ (d[i][j] = 0) <=> (i = j)}

\* mutual_reachability(distance_matrix, min_points), which overwrites its
\* argument: entry (i, j) becomes max(core_i, core_j, d_ij), core_i being the
\* distance from i to its min_points-th nearest neighbour.
mutual_reachability(arr, min_points) ==
    LET n == Len(arr.num)
        further_neighbor_idx == IF min_points - 1 < n - 1 THEN min_points - 1 ELSE n - 1
        core(i) == SortSeq(arr.num[i], LAMBDA a, b : a < b)[further_neighbor_idx + 1]
    IN FArray([i \in 1..n |-> [j \in 1..n |->
                  Max2(Max2(core(i), core(j)), arr.num[i][j])]],
              arr.den)

TrueDivide(arr, alpha) == FArray(arr.num, arr.den * alpha)

\* _hdbscan_brute with copy forced to False.
Mut_hdbscan_brute(heap, X, min_samples, alpha, copy) ==
    LET scaled == [heap EXCEPT ![X] = TrueDivide(heap[X], alpha)]
    IN [scaled EXCEPT ![X] = mutual_reachability(scaled[X], min_samples)]

\* _hdbscan_brute(X, min_samples, alpha, metric="precomputed", copy): the heap
\* once the mutual reachability has been computed.
_hdbscan_brute(heap, X, min_samples, alpha, copy) ==
    LET h1 == IF copy THEN [heap EXCEPT !.copy = heap[X]] ELSE heap
        distance_matrix1 == IF copy THEN "copy" ELSE X
        h2 == IF copy
              THEN [h1 EXCEPT !.scaled = TrueDivide(h1[distance_matrix1], alpha)]
              ELSE [h1 EXCEPT ![distance_matrix1] = TrueDivide(h1[distance_matrix1], alpha)]
        distance_matrix2 == IF copy THEN "scaled" ELSE distance_matrix1
    IN [h2 EXCEPT ![distance_matrix2] = mutual_reachability(h2[distance_matrix2], min_samples)]

\* HDBSCAN(metric="precomputed", ...).fit(D) for a dense float64 D, which
\* _validate_data hands back without copying.
HDBSCAN_fit_precomputed(heap, algorithm, min_samples, alpha, copy) ==
    LET X == "caller"
    IN IF Len(heap[X].num) = 1 THEN [st |-> "error", heap |-> heap]
       ELSE IF min_samples > Len(heap[X].num) THEN [st |-> "error", heap |-> heap]
       ELSE IF algorithm = "kdtree" THEN [st |-> "error", heap |-> heap]
       ELSE [st |-> "ok", heap |-> _hdbscan_brute(heap, X, min_samples, alpha, copy)]

DIdle ==
    /\ dHeap = [caller |-> NoArray, copy |-> NoArray, scaled |-> NoArray]
    /\ dD0 = NoArray
    /\ dParams = [algorithm |-> "", min_samples |-> 0, alpha |-> 0, copy |-> FALSE]
    /\ dOut = "pending"

DInit ==
    /\ \E d \in DistanceMatrices :
          /\ dD0 = FArray(d, 1)
          /\ dHeap = [caller |-> FArray(d, 1), copy |-> NoArray, scaled |-> NoArray]
    /\ dParams \in [algorithm : DAlgorithms, min_samples : 1..(DNSamples + 1),
                    alpha : DAlphas, copy : BOOLEAN]
    /\ dOut = "pending"

\* HDBSCAN(metric="precomputed", copy=..., alpha=...).fit(D)
DFit ==
    /\ dOut = "pending"
    /\ LET r == HDBSCAN_fit_precomputed(dHeap, dParams.algorithm, dParams.min_samples,
                                        dParams.alpha, dParams.copy)
       IN /\ dHeap' = r.heap
          /\ dOut' = r.st
    /\ UNCHANGED <<dD0, dParams>>
    /\ UNCHANGED <<hvars, evars, mvars, svars, gvars, cvars, fvars, nvars, ivars, ovars>>

DNext == DFit

\* C15: with copy=True, fit leaves a dense precomputed distance matrix
\* passed to it unchanged, for every value of alpha.
C15_CopyLeavesDistanceMatrixIntact ==
    (dOut # "pending" /\ dParams.copy) => ArrEq(dHeap.caller, dD0)

\* A fit with copy=True and alpha # 1 whose in-place work changed the values
\* of the array it worked on.
C15_Witness ==
    /\ dOut = "ok"
    /\ dParams.copy
    /\ dParams.alpha # 1
    /\ ~ArrEq(dHeap.scaled, TrueDivide(dD0, dParams.alpha))
    /\ ArrEq(dHeap.copy, dD0)

(***************************************************************************)
(* ColumnwiseNB.fit / partial_fit (sklearn/naive_bayes.py)                 *)
(* Only the bookkeeping of classes_ and class_count_ is modelled.  Whether *)
(* the sub-estimators and the prior update succeed on a batch is an input  *)
(* (est_ok).  An optional argument is a record with a `none` flag.         *)
(***************************************************************************)
NBMaxCalls == 3
NBBatch == 2
NBLabels == {1, 2}
NBWeights == {1, 2}

PyNoneArg == [none |-> TRUE, v |-> <<>>]
PyNoneClasses == [none |-> TRUE, v |-> {}]
PySome(v) == [none |-> FALSE, v |-> v]

NBBatches == UNION {[1..n -> NBLabels] : n \in 1..NBBatch}
NBSampleWeights(y) == {PyNoneArg} \cup {PySome(w) : w \in [1..Len(y) -> NBWeights]}
NBClassesArgs == {PyNoneClasses} \cup {PySome(S) : S \in (SUBSET NBLabels) \ {{}}}

\* The (weighted) number of samples of class c in the batch.
NBCount(y, sample_weight, c) ==
    SeqSum([i \in 1..Len(y) |->
               IF y[i] = c THEN (IF sample_weight.none THEN 1 ELSE sample_weight.v[i])
               ELSE 0])

NBUnfitted == [has_classes |-> FALSE, classes_ |-> {}, class_count_ |-> <<>>,
               has_estimators |-> FALSE]

\* _check_partial_fit_first_call(clf, classes): "error", or the classes_
\* the estimator has afterwards.
_check_partial_fit_first_call(clf, classes) ==
    IF ~clf.has_classes /\ classes.none THEN [st |-> "error", classes_ |-> {}]
    ELSE IF ~classes.none /\ clf.has_classes /\ clf.classes_ # classes.v
    THEN [st |-> "error", classes_ |-> clf.classes_]
    ELSE IF ~classes.none /\ ~clf.has_classes THEN [st |-> "ok", classes_ |-> classes.v]
    ELSE [st |-> "ok", classes_ |-> clf.classes_]

\* _partial_fit with every call treated as a first call.
Mut_partial_fit(self, y, partial, classes, sample_weight, est_ok) ==
    LET chk == IF partial THEN _check_partial_fit_first_call(self, classes)
               ELSE [st |-> "ok", classes_ |-> Range(y)]
    IN IF chk.st = "error" THEN [st |-> "error", self |-> self]
       ELSE [st |-> IF est_ok THEN "ok" ELSE "error",
             self |-> [has_classes |-> TRUE, classes_ |-> chk.classes_,
                       class_count_ |-> [c \in chk.classes_ |-> NBCount(y, sample_weight, c)],
                       has_estimators |-> self.has_estimators \/ est_ok]]

\* ColumnwiseNB._partial_fit: the outcome and the estimator afterwards.
_partial_fit(self, y, partial, classes, sample_weight, est_ok) ==
    LET first_call == ~self.has_classes
        chk == IF partial THEN _check_partial_fit_first_call(self, classes)
               ELSE [st |-> "ok", classes_ |-> Range(y)]
    IN IF chk.st = "error" THEN [st |-> "error", self |-> self]
       ELSE LET counts == [c \in chk.classes_ |-> NBCount(y, sample_weight, c)]
                counted == [self EXCEPT
                               !.has_classes = TRUE,
                               !.classes_ = chk.classes_,
                               !.class_count_ =
                                   IF first_call THEN counts
                                   ELSE [c \in chk.classes_ |-> self.class_count_[c] + counts[c]]]
            IN IF ~first_call /\ ~self.has_estimators
               THEN [st |-> "error", self |-> counted]          \* no estimators_ to iterate
               ELSE IF ~est_ok THEN [st |-> "error", self |-> counted]
               ELSE [st |-> "ok", self |-> [counted EXCEPT !.has_estimators = TRUE]]

\* ColumnwiseNB.fit
ColumnwiseNB_fit(self, y, sample_weight, est_ok) ==
    _partial_fit([self EXCEPT !.has_classes = FALSE, !.classes_ = {}],
                 y, FALSE, PyNoneClasses, sample_weight, est_ok)

\* ColumnwiseNB.partial_fit
ColumnwiseNB_partial_fit(self, y, classes, sample_weight, est_ok) ==
    _partial_fit(self, y, TRUE, classes, sample_weight, est_ok)

NBNoneSeen == [c \in NBLabels |-> 0]

NIdle ==
    /\ nModel = NBUnfitted
    /\ nSeen = NBNoneSeen
    /\ nLog = [calls |-> 0, since_fit |-> 0, failed |-> FALSE, dropped |-> 0]
    /\ nOn = FALSE

\* ColumnwiseNB(estimators)
NInit ==
    /\ nModel = NBUnfitted
    /\ nSeen = NBNoneSeen
    /\ nLog = [calls |-> 0, since_fit |-> 0, failed |-> FALSE, dropped |-> 0]
    /\ nOn = TRUE

\* clf.fit(X, y, sample_weight): nSeen restarts from this batch.
NFit ==
    /\ nOn /\ nLog.calls < NBMaxCalls
    /\ \E y \in NBBatches : \E sample_weight \in NBSampleWeights(y) : \E est_ok \in BOOLEAN :
          LET r == ColumnwiseNB_fit(nModel, y, sample_weight, est_ok)
          IN /\ nModel' = r.self
             /\ nSeen' = [c \in NBLabels |-> NBCount(y, sample_weight, c)]
             /\ nLog' = [calls |-> nLog.calls + 1, since_fit |-> 1,
                         failed |-> r.st # "ok",
                         dropped |-> IF nLog.failed THEN 0
                                     ELSE SeqSum([c \in 1..Cardinality(NBLabels) |-> nSeen[c]])]
    /\ UNCHANGED nOn
    /\ UNCHANGED <<hvars, evars, mvars, svars, gvars, cvars, fvars, dvars, ivars, ovars>>

\* clf.partial_fit(X, y, classes, sample_weight): nSeen grows by the batch
\* when the call succeeds.
NPartialFit ==
    /\ nOn /\ nLog.calls < NBMaxCalls
    /\ \E y \in NBBatches : \E sample_weight \in NBSampleWeights(y) :
       \E classes \in NBClassesArgs : \E est_ok \in BOOLEAN :
          LET r == ColumnwiseNB_partial_fit(nModel, y, classes, sample_weight, est_ok)
          IN /\ nModel' = r.self
             /\ nSeen' = IF r.st = "ok"
                         THEN [c \in NBLabels |-> nSeen[c] + NBCount(y, sample_weight, c)]
                         ELSE nSeen
             /\ nLog' = [nLog EXCEPT !.calls = @ + 1,
                                     !.since_fit = IF r.st = "ok" THEN @ + 1 ELSE @,
                                     !.failed = @ \/ r.st # "ok"]
    /\ UNCHANGED nOn
    /\ UNCHANGED <<hvars, evars, mvars, svars, gvars, cvars, fvars, dvars, ivars, ovars>>

NNext == NFit \/ NPartialFit

\* C16: after any sequence of successful partial_fit calls, class_count_[c]
\* is the (sample-weighted) number of samples of class c met over all the
\* batches, and a fit discards the counts of all the calls before it.
C16_ClassCountIsSamplesSeen ==
    (nModel.has_classes /\ ~nLog.failed) =>
        \A c \in nModel.classes_ : nModel.class_count_[c] = nSeen[c]

\* Counts accumulated by a fit and a partial_fit, the fit having discarded
\* the samples counted by an earlier successful call.
C16_Witness ==
    /\ nModel.has_classes /\ ~nLog.failed
    /\ nLog.since_fit >= 2
    /\ nLog.dropped >= 1
    /\ \E c \in nModel.classes_ : nModel.class_count_[c] >= 3

(***************************************************************************)
(* OneHotEncoder with infrequent categories                                *)
(* (src/sklearn/preprocessing/_encoders.py).  A column is given by the     *)
(* counts of its categories, as _encode(..., return_counts=True) reports   *)
(* them; a count of zero is a category listed by the user and absent from  *)
(* the data.  min_frequency is an integer or a fraction num/den.           *)
(***************************************************************************)
INFeatures == 2
IMaxCats == 3
IMaxSamples == 3
IMaxLevels == 3

ILevelsNone == [none |-> TRUE, v |-> 0]

IMaxLevelsArgs == {ILevelsNone} \cup {[none |-> FALSE, v |-> k] : k \in 1..IMaxLevels}

IMinFrequencyArgs == {[int |-> TRUE, v |-> <<k, 1>>] : k \in 0..2} \cup {[int |-> FALSE, v |-> <<k, 4>>] : k \in {1, 2, 4}}

IParams == [max_levels : IMaxLevelsArgs, min_frequency : IMinFrequencyArgs, drop : {"None", "first"}, handle_unknown : {"error", "auto", "ignore"}]

ICountVectors(n_samples) == {c \in UNION {[1..n -> 0..n_samples] : n \in 1..IMaxCats} : SeqSum(c) <= n_samples}

IInfreqNone == [none |-> TRUE, v |-> {}]

infrequent_enabled(p) ==
    \/ (~p.max_levels.none /\ p.max_levels.v > 1)
    \/ (p.min_frequency.int /\ p.min_frequency.v[1] > 1)
    \/ (~p.min_frequency.int /\ RatGreater(p.min_frequency.v, <<0, 1>>) /\ RatGreater(<<1, 1>>, p.min_frequency.v))

\* TRUE when _validate_keywords returns, FALSE when it raises ValueError.
validate_infrequent_keywords(p) ==
    /\ ~(p.drop # "None" /\ p.handle_unknown # "error")
    /\ ~(p.drop # "None" /\ infrequent_enabled(p))
    /\ ~(p.handle_unknown = "ignore" /\ infrequent_enabled(p))
    /\ ~(~p.max_levels.none /\ p.max_levels.v <= 1)
    /\ IF p.min_frequency.int
       THEN p.min_frequency.v[1] >= 1
       ELSE RatGreater(p.min_frequency.v, <<0, 1>>) /\ RatGreater(<<1, 1>>, p.min_frequency.v)

\* Position of index i in np.argsort(category_count, kind='mergesort').
ArgsortRank(category_count, i) == Cardinality({j \in DOMAIN category_count : category_count[j] < category_count[i] \/ (category_count[j] = category_count[i] /\ j < i)})

\* np.argsort(category_count, kind='mergesort')[:stop] as a set of indices.
ArgsortHead(category_count, stop) == {i \in DOMAIN category_count : ArgsortRank(category_count, i) < stop}

FrequencyMask(p, category_count, n_samples) ==
    {i \in DOMAIN category_count :
        \/ category_count[i] = 0
        \/ (p.min_frequency.int /\ p.min_frequency.v[1] > 1 /\ category_count[i] < p.min_frequency.v[1])
        \/ (~p.min_frequency.int /\ RatGreater(<<n_samples * p.min_frequency.v[1], p.min_frequency.v[2]>>, <<category_count[i], 1>>))}

\* The slice keeps one position too many: [:-max_levels] for [:-max_levels + 1].
Mut_identify_infrequent(p, category_count, n_samples) ==
    LET size == Len(category_count)
        smallest_levels == IF ~p.max_levels.none /\ p.max_levels.v > 1 /\ p.max_levels.v < size
                           THEN ArgsortHead(category_count, size - p.max_levels.v)
                           ELSE {}
        output == FrequencyMask(p, category_count, n_samples) \cup smallest_levels
    IN  IF Cardinality(output) = size THEN Err
        ELSE IF output # {} THEN Ok([none |-> FALSE, v |-> output])
        ELSE Ok(IInfreqNone)

_identify_infrequent(p, category_count, n_samples) ==
    LET size == Len(category_count)
        smallest_levels == IF ~p.max_levels.none /\ p.max_levels.v > 1 /\ p.max_levels.v < size
                           THEN ArgsortHead(category_count, size - p.max_levels.v + 1)
                           ELSE {}
        output == FrequencyMask(p, category_count, n_samples) \cup smallest_levels
    IN  IF Cardinality(output) = size THEN Err
        ELSE IF output # {} THEN Ok([none |-> FALSE, v |-> output])
        ELSE Ok(IInfreqNone)

_fit_infrequent_category_mapping(p, category_counts, n_samples) ==
    LET each == [i \in DOMAIN category_counts |-> _identify_infrequent(p, category_counts[i], n_samples)]
    IN  IF \E i \in DOMAIN each : ~IsOk(each[i]) THEN Err
        ELSE Ok([i \in DOMAIN each |-> each[i].v])

n_transformed_features_infrequent(p, category_counts, infrequent_indices_) ==
    [i \in DOMAIN category_counts |->
        IF p.drop # "None" THEN Len(category_counts[i]) - 1
        ELSE IF ~infrequent_enabled(p) THEN Len(category_counts[i])
        ELSE IF infrequent_indices_[i].none THEN Len(category_counts[i])
        ELSE Len(category_counts[i]) - Cardinality(infrequent_indices_[i].v) + 1]

IUnfitted == [st |-> "pending", counts |-> <<>>, n_samples |-> 0, infrequent_indices_ |-> <<>>, n_out |-> <<>>]

IRaised == [st |-> "error", counts |-> <<>>, n_samples |-> 0, infrequent_indices_ |-> <<>>, n_out |-> <<>>]

OneHotEncoder_fit_counts(p, category_counts, n_samples) ==
    IF ~validate_infrequent_keywords(p) THEN IRaised
    ELSE LET none_each == [i \in DOMAIN category_counts |-> IInfreqNone]
             m == IF infrequent_enabled(p)
                  THEN _fit_infrequent_category_mapping(p, category_counts, n_samples)
                  ELSE Ok(none_each)
         IN  IF ~IsOk(m) THEN IRaised
             ELSE [st |-> "ok", counts |-> category_counts, n_samples |-> n_samples, infrequent_indices_ |-> m.v,
                   n_out |-> n_transformed_features_infrequent(p, category_counts, m.v)]

IData == UNION {[n_samples : {n}, counts : [1..INFeatures -> ICountVectors(n)]] : n \in 1..IMaxSamples}

IIdle ==
    /\ iParams = [max_levels |-> ILevelsNone, min_frequency |-> [int |-> TRUE, v |-> <<1, 1>>], drop |-> "None", handle_unknown |-> "error"]
    /\ iX = [n_samples |-> 1, counts |-> [i \in 1..INFeatures |-> <<1>>]]
    /\ iFit = IUnfitted

\* The counts of every column add up to n_samples, except that values
\* outside user-given categories are skipped when handle_unknown is not
\* 'error'.
IInit ==
    /\ iParams \in IParams
    /\ iX \in IData
    /\ \A i \in 1..INFeatures : iParams.handle_unknown = "error" => SeqSum(iX.counts[i]) = iX.n_samples
    /\ iFit = IUnfitted

IFit ==
    /\ iFit' = OneHotEncoder_fit_counts(iParams, iX.counts, iX.n_samples)
    /\ UNCHANGED <<iParams, iX>>
    /\ UNCHANGED <<hvars, evars, mvars, svars, gvars, cvars, fvars, dvars, nvars, ovars>>

INext == IFit

\* C17: after a successful fit with max_levels = k, every input feature
\* yields at most k output features, the one feature standing for its
\* infrequent categories included, whatever min_frequency is.
C17_AtMostMaxLevelsOutputs ==
    (iFit.st = "ok" /\ ~iParams.max_levels.none) =>
        \A i \in DOMAIN iFit.n_out : iFit.n_out[i] <= iParams.max_levels.v

\* A fit where max_levels and min_frequency are both in force, a column has
\* more categories than max_levels, and it comes out with exactly
\* max_levels output features.
C17_Witness ==
    /\ iFit.st = "ok"
    /\ ~iParams.max_levels.none
    /\ infrequent_enabled([iParams EXCEPT !.max_levels = ILevelsNone])
    /\ \E i \in DOMAIN iFit.n_out :
         /\ Len(iFit.counts[i]) > iParams.max_levels.v
         /\ ~iFit.infrequent_indices_[i].none
         /\ iFit.n_out[i] = iParams.max_levels.v

(***************************************************************************)
(* fetch_openml (src/sklearn/datasets/openml.py).  The file system is the  *)
(* set of directories that exist among data_home, data_home/openml and     *)
(* data_home/openml/cache; the server is the sequence of answers urlopen   *)
(* gives to the requests of one call.                                      *)
(***************************************************************************)
OMaxId == 2
OMaxVersion == 2

ONameOrIds == [kind : {"int", "str"}, v : 1..OMaxId] \cup {[kind |-> "other", v |-> 0]}

OVersions == {[active |-> TRUE, v |-> 0]} \cup {[active |-> FALSE, v |-> k] : k \in 1..OMaxVersion}

OArgs == [name_or_id : ONameOrIds, version : OVersions, memory : BOOLEAN]

OFileSystems == {{}, {"data_home"}, {"data_home", "openml"}, {"data_home", "openml", "cache"}}

\* urlopen: the answer, an HTTPError with code 412, or another HTTPError.
OResponses == {"ok", "412", "err"}

ORequests == 1..5

\* get_data_home creates the directory when it is missing.
get_data_home(fs) == fs \cup {"data_home"}

\* Memory(join(data_home, 'cache')): whether joblib creates the cache
\* directory on construction is its own business (mkcache).
Memory(fs, memory, mkcache) == IF memory /\ mkcache THEN fs \cup {"openml", "cache"} ELSE fs

\* if not exists(data_home): os.makedirs(data_home)
makedirs_openml(fs) == IF "openml" \notin fs THEN fs \cup {"data_home", "openml"} ELSE fs

OCall(out, n) == [out |-> out, n |-> n]

\* A memoized call that finds its result in the cache issues no request.
_get_data_info_by_name(version, resp, k, hit) ==
    IF hit THEN OCall("ok", 0)
    ELSE IF resp[k + 1] = "err" THEN OCall("HTTPError", 1)
    ELSE IF resp[k + 1] = "ok" THEN OCall("ok", 1)
    ELSE IF version.active THEN OCall("ValueError: not found", 1)
    ELSE IF resp[k + 2] = "err" THEN OCall("HTTPError", 2)
    ELSE IF resp[k + 2] = "ok" THEN OCall("ok", 2)
    ELSE OCall("ValueError: not found", 2)

\* _get_data_description_by_id and _get_data_features: an HTTPError other
\* than 412 is swallowed and json_string is then unbound.
_get_data_by_id(resp, k, hit) ==
    IF hit THEN OCall("ok", 0)
    ELSE IF resp[k + 1] = "ok" THEN OCall("ok", 1)
    ELSE IF resp[k + 1] = "412" THEN OCall("ValueError: not found", 1)
    ELSE OCall("UnboundLocalError", 1)

_download_data_csv(resp, k, hit) ==
    IF hit THEN OCall("ok", 0)
    ELSE IF resp[k + 1] = "ok" THEN OCall("ok", 1)
    ELSE OCall("HTTPError", 1)

\* The part of fetch_openml after the dataset id is known; n requests so far.
fetch_by_id(resp, hit, n) ==
    LET d == _get_data_by_id(resp, n, hit[2])
        f == _get_data_by_id(resp, n + d.n, hit[3])
        c == _download_data_csv(resp, n + d.n + f.n, hit[4])
    IN  IF d.out # "ok" THEN OCall(d.out, n + d.n)
        ELSE IF f.out # "ok" THEN OCall(f.out, n + d.n + f.n)
        ELSE OCall(c.out, n + d.n + f.n + c.n)

\* Outcome, number of HTTP requests issued, and the directories that exist
\* when the call ends.
fetch_openml(args, fs, mkcache, resp, hit) ==
    LET fs3 == makedirs_openml(Memory(get_data_home(fs), args.memory, mkcache))
        r == IF args.name_or_id.kind = "int"
             THEN IF ~args.version.active THEN OCall("ValueError: id and version", 0)
                  ELSE fetch_by_id(resp, hit, 0)
             ELSE IF args.name_or_id.kind = "str"
             THEN LET i == _get_data_info_by_name(args.version, resp, 0, hit[1])
                  IN IF i.out # "ok" THEN i ELSE fetch_by_id(resp, hit, i.n)
             ELSE OCall("TypeError: name_or_id", 0)
    IN  [out |-> r.out, http |-> r.n, fs |-> fs3]

OIdle ==
    /\ oArgs = [name_or_id |-> [kind |-> "other", v |-> 0], version |-> [active |-> TRUE, v |-> 0], memory |-> TRUE]
    /\ oFs = {}
    /\ oFs0 = {}
    /\ oHttp = 0
    /\ oOut = "pending"

OInit ==
    /\ oArgs \in OArgs
    /\ oFs \in OFileSystems
    /\ oFs0 = oFs
    /\ oHttp = 0
    /\ oOut = "pending"

\* One call of fetch_openml with the arguments oArgs; a memoized function
\* can only find a cached result when the cache directory already exists.
OFetch ==
    /\ \E mkcache \in BOOLEAN : \E resp \in [ORequests -> OResponses] : \E hit \in [1..4 -> BOOLEAN] :
         /\ (\E j \in 1..4 : hit[j]) => (oArgs.memory /\ "cache" \in oFs)
         /\ LET r == fetch_openml(oArgs, oFs, mkcache, resp, hit)
            IN /\ oOut' = r.out
               /\ oHttp' = r.http
               /\ oFs' = r.fs
    /\ oFs0' = oFs
    /\ UNCHANGED oArgs
    /\ UNCHANGED <<hvars, evars, mvars, svars, gvars, cvars, fvars, dvars, nvars, ivars>>

ONext == OFetch

OValidationErrors == {"ValueError: id and version", "TypeError: name_or_id"}

\* C19: fetch_openml validates its arguments eagerly: an integer id with a
\* version other than 'active' raises ValueError and a name_or_id that is
\* neither a string nor an integer raises TypeError, before any HTTP request
\* is issued or any cache directory is created.
C19_ValidatesBeforeAnyEffect ==
    oOut # "pending" =>
        /\ (oArgs.name_or_id.kind = "int" /\ ~oArgs.version.active) => oOut = "ValueError: id and version"
        /\ oArgs.name_or_id.kind = "other" => oOut = "TypeError: name_or_id"
        /\ oOut \in OValidationErrors => (oHttp = 0 /\ oFs = oFs0)

(***************************************************************************)
(* Specifications                                                          *)
(***************************************************************************)
InitHDBSCAN == HInit /\ EIdle /\ MIdle /\ SIdle /\ GIdle /\ CIdle /\ FIdle /\ DIdle /\ NIdle /\ IIdle /\ OIdle

SpecHDBSCAN == InitHDBSCAN /\ [][HNext]_vars

InitOHE == EInit /\ HIdle /\ MIdle /\ SIdle /\ GIdle /\ CIdle /\ FIdle /\ DIdle /\ NIdle /\ IIdle /\ OIdle

SpecOHE == InitOHE /\ [][ENext]_vars

InitMimic == MInit /\ HIdle /\ EIdle /\ SIdle /\ GIdle /\ CIdle /\ FIdle /\ DIdle /\ NIdle /\ IIdle /\ OIdle

SpecMimic == InitMimic /\ [][MNext]_vars

InitSelect == SInit /\ HIdle /\ EIdle /\ MIdle /\ GIdle /\ CIdle /\ FIdle /\ DIdle /\ NIdle /\ IIdle /\ OIdle

SpecSelect == InitSelect /\ [][SNext]_vars

InitGLM == GInit /\ HIdle /\ EIdle /\ MIdle /\ SIdle /\ CIdle /\ FIdle /\ DIdle /\ NIdle /\ IIdle /\ OIdle

SpecGLM == InitGLM /\ [][GNext]_vars

InitSFMCV == CInit /\ HIdle /\ EIdle /\ MIdle /\ SIdle /\ GIdle /\ FIdle /\ DIdle /\ NIdle /\ IIdle /\ OIdle

SpecSFMCV == InitSFMCV /\ [][CNext]_vars

InitFA == FInit /\ HIdle /\ EIdle /\ MIdle /\ SIdle /\ GIdle /\ CIdle /\ DIdle /\ NIdle /\ IIdle /\ OIdle

SpecFA == InitFA /\ [][FNext]_vars

InitHDBSCANPrecomputed == DInit /\ HIdle /\ EIdle /\ MIdle /\ SIdle /\ GIdle /\ CIdle /\ FIdle /\ NIdle /\ IIdle /\ OIdle

SpecHDBSCANPrecomputed == InitHDBSCANPrecomputed /\ [][DNext]_vars

InitColumnwiseNB == NInit /\ HIdle /\ EIdle /\ MIdle /\ SIdle /\ GIdle /\ CIdle /\ FIdle /\ DIdle /\ IIdle /\ OIdle

SpecColumnwiseNB == InitColumnwiseNB /\ [][NNext]_vars

InitOHEInfrequent == IInit /\ HIdle /\ EIdle /\ MIdle /\ SIdle /\ GIdle /\ CIdle /\ FIdle /\ DIdle /\ NIdle /\ OIdle

SpecOHEInfrequent == InitOHEInfrequent /\ [][INext]_vars

InitOpenML == OInit /\ HIdle /\ EIdle /\ MIdle /\ SIdle /\ GIdle /\ CIdle /\ FIdle /\ DIdle /\ NIdle /\ IIdle

SpecOpenML == InitOpenML /\ [][ONext]_vars

====
